---- MODULE Spec2Model ----
(***************************************************************************)
(* Treasury ledger and contribution state machine of the group-treasury   *)
(* application: the HTTP handlers of routes.ts over the tables of the     *)
(* schema, through the DatabaseStorage methods of storage.ts.             *)
(*                                                                         *)
(* Representation.  Decimal columns (numeric(12,2), carried as strings by  *)
(* the ORM) hold whole amounts here and are integers; parseFloat and       *)
(* toString are exact on them.  A timestamp is the value of the logical    *)
(* clock `now`; the null timestamp is NoDate.  A transaction id is a       *)
(* positive integer (the digits after "TXN"); the null id is NoTxn.        *)
(* An absent (undefined) string field of a request body is NULL.           *)
(*                                                                         *)
(* Spec and SpecFaulty serve the requests one at a time, a handler being   *)
(* one step.  SpecConcurrent runs two handlers at the same time, a step    *)
(* being one awaited store call.  SpecStats computes the statistics over   *)
(* the contributions tables of a bounded size.                             *)
(***************************************************************************)
EXTENDS Integers, Sequences, FiniteSets, TLC

VARIABLES users, contributions, treasury, treasuryAdjustments, auditLogs,
          now, last, faulty, inflight

vars == <<users, contributions, treasury, treasuryAdjustments, auditLogs,
          now, last, faulty, inflight>>

----------------------------------------------------------------------------
(* Bounds *)

\* the clock value at which a store whose writes never fail stops serving
\* requests (the clock starts at 1 and every request advances it by one)
MaxClock == 4

\* the same for a store whose writes may fail
MaxFaultyClock == 3

\* the largest contributions table the statistics are computed over
MaxRows == 5

----------------------------------------------------------------------------
(* Values *)

NULL == "NULL"
NoDate == 0
NoTxn == 0

Admin == "admin-123"
Member == "member-456"
UserIds == {Admin, Member}

\* the two clients whose requests the server handles at the same time
Clients == {"c1", "c2"}

\* a client with no request in flight; a handler in flight keeps its
\* position (pc), its arguments and the values it has read so far
Idle ==
  [pc |-> "idle", op |-> "none", actor |-> NULL, id |-> 0, status |-> NULL,
   txn |-> 0, type |-> NULL, amount |-> 0, reason |-> NULL,
   newBalance |-> 0, existingTreasury |-> <<>>, code |-> 0]

\* request bodies: POST /api/contributions
SubmitBodies ==
  { [amount |-> 1, paymentMethod |-> "mtn", status |-> NULL],
    [amount |-> 2, paymentMethod |-> "visa", status |-> "pending"],
    [amount |-> 2, paymentMethod |-> "mtn", status |-> "confirmed"],
    [amount |-> 0, paymentMethod |-> "mtn", status |-> NULL],
    [amount |-> 1, paymentMethod |-> "cash", status |-> NULL],
    [amount |-> 1, paymentMethod |-> NULL, status |-> NULL] }

\* request bodies: PATCH /api/contributions/:id/status
TransitionBodies ==
  { [status |-> "confirmed", transactionId |-> 7],
    [status |-> "confirmed", transactionId |-> NoTxn],
    [status |-> "failed", transactionId |-> NoTxn],
    [status |-> "failed", transactionId |-> 7],
    [status |-> "refunded", transactionId |-> NoTxn] }

\* request bodies: POST /api/treasury/adjust
AdjustBodies ==
  { [type |-> "deposit", amount |-> 2, reason |-> "bank fee"],
    [type |-> "withdrawal", amount |-> 1, reason |-> "bank fee"],
    [type |-> "interest", amount |-> 1, reason |-> "bank fee"],
    [type |-> "fee", amount |-> 1, reason |-> "bank fee"],
    [type |-> "deposit", amount |-> 0, reason |-> "bank fee"],
    [type |-> "withdrawal", amount |-> -1, reason |-> "bank fee"],
    [type |-> "deposit", amount |-> 2, reason |-> ""],
    [type |-> "deposit", amount |-> 2, reason |-> NULL],
    [type |-> "bonus", amount |-> 1, reason |-> "bank fee"] }

\* the closed enumerations named by the schema's column comments
PaymentMethods == {"visa", "mastercard", "mtn", "airtel"}
Statuses == {"pending", "confirmed", "failed"}
AdjustmentTypes == {"deposit", "withdrawal", "interest", "fee"}

\* the request recorded before any request was served
NoRequest ==
  [op |-> "none", actor |-> NULL, code |-> 0, id |-> 0, status |-> NULL,
   txn |-> NoTxn, amount |-> 0, method |-> NULL, type |-> NULL,
   reason |-> NULL, fail |-> 0, result |-> <<>>, reads |-> 0]

----------------------------------------------------------------------------
(* Storage: the tables and the DatabaseStorage methods *)

\* a users row with the column defaults
NewUser(id, role) ==
  [id |-> id, role |-> role, totalContributed |-> 0, currentBalance |-> 0,
   lastPaymentDate |-> NoDate, isActive |-> TRUE]

getUser(id) == users[id]

\* the row inserted by createContribution: serial id, createdAt defaultNow
createContribution(data) ==
  Append(contributions,
         [id |-> Len(contributions) + 1, userId |-> data.userId,
          amount |-> data.amount, paymentMethod |-> data.paymentMethod,
          status |-> data.status, transactionId |-> NoTxn,
          createdAt |-> now, confirmedAt |-> NoDate])

\* an update that lost its WHERE clause and rewrites every row
updateContributionStatusAllRows(id, status, transactionId) ==
  [i \in 1..Len(contributions) |->
     [contributions[i] EXCEPT
        !.status = status,
        !.confirmedAt = IF status = "confirmed" THEN now ELSE NoDate,
        !.transactionId = IF transactionId # NoTxn THEN transactionId ELSE @]]

\* an update that always writes the transactionId column, clearing it when
\* the call carries none
updateContributionStatusTxnAlways(id, status, transactionId) ==
  [i \in 1..Len(contributions) |->
     IF contributions[i].id = id
     THEN [contributions[i] EXCEPT
             !.status = status,
             !.confirmedAt = IF status = "confirmed" THEN now ELSE NoDate,
             !.transactionId = transactionId]
     ELSE contributions[i]]

\* UPDATE contributions SET status, confirmedAt [, transactionId] WHERE id = id
updateContributionStatus(id, status, transactionId) ==
  [i \in 1..Len(contributions) |->
     IF contributions[i].id = id
     THEN [contributions[i] EXCEPT
             !.status = status,
             !.confirmedAt = IF status = "confirmed" THEN now ELSE NoDate,
             !.transactionId = IF transactionId # NoTxn THEN transactionId ELSE @]
     ELSE contributions[i]]

\* a read that stamps the row it returns with the time of the read
getTreasuryStamped ==
  IF Len(treasury) = 0 THEN <<>>
  ELSE <<[treasury[1] EXCEPT !.updatedAt = now]>>

\* a read that makes up a zeroed row while the table is empty
getTreasuryDefaulted ==
  IF Len(treasury) = 0
  THEN <<[id |-> 1, totalBalance |-> 0, totalContributions |-> 0,
          totalWithdrawals |-> 0, interestEarned |-> 0, updatedAt |-> now]>>
  ELSE <<treasury[1]>>

\* SELECT * FROM treasury LIMIT 1; the empty sequence is `undefined`
getTreasury == IF Len(treasury) = 0 THEN <<>> ELSE <<treasury[1]>>

\* updateTreasury({totalBalance}): update the existing row, or insert one
updateTreasury(totalBalance) ==
  IF Len(getTreasury) > 0
  THEN [i \in 1..Len(treasury) |->
          IF treasury[i].id = getTreasury[1].id
          THEN [treasury[i] EXCEPT !.totalBalance = totalBalance,
                                   !.updatedAt = now]
          ELSE treasury[i]]
  ELSE Append(treasury,
              [id |-> Len(treasury) + 1, totalBalance |-> totalBalance,
               totalContributions |-> 0, totalWithdrawals |-> 0,
               interestEarned |-> 0, updatedAt |-> now])

createTreasuryAdjustment(data) ==
  Append(treasuryAdjustments,
         [id |-> Len(treasuryAdjustments) + 1, type |-> data.type,
          amount |-> data.amount, reason |-> data.reason,
          adminId |-> data.adminId, createdAt |-> now])

\* an insert that puts the new entry first, as getAuditLogs lists them
createAuditLogNewestFirst(log) ==
  <<[id |-> Len(auditLogs) + 1, action |-> log.action,
     details |-> log.details, adminId |-> log.adminId,
     createdAt |-> now]>> \o auditLogs

createAuditLog(log) ==
  Append(auditLogs,
         [id |-> Len(auditLogs) + 1, action |-> log.action,
          details |-> log.details, adminId |-> log.adminId,
          createdAt |-> now])

----------------------------------------------------------------------------
(* Statistics: DatabaseStorage.getContributionStats *)

\* new Date(now.getFullYear(), now.getMonth(), 1): the instants of the
\* logical clock all lie in the current month
firstDayOfMonth == 1

RECURSIVE sumConfirmedSince(_, _)
\* sum(amount) WHERE status = 'confirmed' AND createdAt >= since, over the
\* first n rows
sumConfirmedSince(n, since) ==
  IF n = 0 THEN 0
  ELSE sumConfirmedSince(n - 1, since)
       + (IF contributions[n].status = "confirmed"
             /\ contributions[n].createdAt >= since
          THEN contributions[n].amount ELSE 0)

\* a rounding that drops the digits after the first decimal
MathRoundDown(num, den) == num \div den

\* Math.round of the non-negative quotient num / den: the nearest integer,
\* a half going up
MathRound(num, den) == (2 * num + den) \div (2 * den)

\* the paymentRate of the result, in tenths of a percent:
\* Math.round((totalConfirmed / totalContributions) * 100 * 10) / 10, where
\* totalContributions is count(*) || 1
paymentRate(totalConfirmed, count) ==
  LET totalContributions == IF count = 0 THEN 1 ELSE count
  IN IF totalContributions > 0
     THEN MathRound(totalConfirmed * 100 * 10, totalContributions)
     ELSE 0

getContributionStats ==
  LET totalConfirmed ==
        Cardinality({i \in 1..Len(contributions) :
                       contributions[i].status = "confirmed"})
  IN [totalThisMonth |->
        sumConfirmedSince(Len(contributions), firstDayOfMonth),
      totalConfirmed |-> totalConfirmed,
      activeMembers |->
        Cardinality({u \in UserIds :
                       users[u].role = "member" /\ users[u].isActive}),
      paymentRate |-> paymentRate(totalConfirmed, Len(contributions))]

----------------------------------------------------------------------------
(* Validation: the zod insert schemas *)

\* insertContributionSchema.parse: userId, amount and paymentMethod are
\* required strings; status is optional and kept when given
insertContributionSchemaOk(body) == body.paymentMethod # NULL

\* insertTreasuryAdjustmentSchema.parse: type, amount, reason and adminId
\* are required strings, with no further constraint
insertTreasuryAdjustmentSchemaOk(body) ==
  body.type # NULL /\ body.reason # NULL

----------------------------------------------------------------------------
(* Handlers.  `fail` is the store write of the handler that throws        *)
(* (0: none); only a faulty store throws.  The handler's catch turns the  *)
(* exception into a 500; the writes made before it stay.                  *)

FailPoints(n) == IF faulty THEN 0..n ELSE {0}

\* a role check that lets every authenticated user through
adminAccessUnchecked(actor) == TRUE

\* the role check of the admin endpoints: user?.role !== 'admin' -> 403
adminAccess(actor) == getUser(actor).role = "admin"

\* the store still serves requests
Serving == now < (IF faulty THEN MaxFaultyClock ELSE MaxClock)

\* POST /api/contributions
PostContribution(actor, amount, method, status, fail) ==
  /\ Serving
  /\ LET body == [amount |-> amount, paymentMethod |-> method,
                  status |-> status]
         valid == insertContributionSchemaOk(body)
         data == [userId |-> actor, amount |-> amount,
                  paymentMethod |-> method,
                  status |-> IF status = NULL THEN "pending" ELSE status]
         w1 == valid /\ fail # 1
         w2 == w1 /\ fail # 2
     IN /\ contributions' = IF w1 THEN createContribution(data)
                            ELSE contributions
        /\ auditLogs' =
             IF w2
             THEN createAuditLog([action |-> "Payment Initiated",
                                  details |-> [id |-> 0, amount |-> amount,
                                               what |-> method,
                                               reason |-> NULL],
                                  adminId |-> actor])
             ELSE auditLogs
        /\ last' = [NoRequest EXCEPT !.op = "submit", !.actor = actor,
                      !.code = IF w2 THEN 200 ELSE 500,
                      !.id = IF w1 THEN Len(contributions) + 1 ELSE 0,
                      !.amount = amount, !.method = method,
                      !.status = status, !.fail = fail]
  /\ now' = now + 1
  /\ UNCHANGED <<users, treasury, treasuryAdjustments, faulty, inflight>>

\* PATCH /api/contributions/:id/status
PatchContributionStatus(actor, id, status, transactionId, fail) ==
  /\ Serving
  /\ LET admin == adminAccess(actor)
         w1 == admin /\ fail # 1
         w2 == w1 /\ fail # 2
     IN /\ contributions' =
             IF w1 THEN updateContributionStatus(id, status, transactionId)
             ELSE contributions
        /\ auditLogs' =
             IF w2
             THEN createAuditLog([action |-> "Payment Status Updated",
                                  details |-> [id |-> id, amount |-> 0,
                                               what |-> status,
                                               reason |-> NULL],
                                  adminId |-> actor])
             ELSE auditLogs
        /\ last' =
             IF ~admin
             THEN [NoRequest EXCEPT !.op = "transition", !.actor = actor,
                                    !.code = 403]
             ELSE [NoRequest EXCEPT !.op = "transition", !.actor = actor,
                     !.code = IF w2 THEN 200 ELSE 500,
                     !.id = id, !.status = status, !.txn = transactionId,
                     !.fail = fail]
  /\ now' = now + 1
  /\ UNCHANGED <<users, treasury, treasuryAdjustments, faulty, inflight>>

\* a simulation endpoint behind the role check of the admin endpoints
PostPaymentsSimulateAdminOnly(actor, contributionId, success, fail) ==
  /\ Serving
  /\ LET status == IF success THEN "confirmed" ELSE "failed"
         transactionId == IF success THEN now ELSE NoTxn
         admin == adminAccess(actor)
         w1 == admin /\ fail # 1
     IN /\ contributions' =
             IF w1
             THEN updateContributionStatus(contributionId, status,
                                           transactionId)
             ELSE contributions
        /\ last' = [NoRequest EXCEPT !.op = "simulate", !.actor = actor,
                      !.code = IF ~admin THEN 403
                               ELSE IF w1 THEN 200 ELSE 500,
                      !.id = contributionId, !.status = status,
                      !.txn = IF w1 THEN transactionId ELSE NoTxn,
                      !.fail = fail]
  /\ now' = now + 1
  /\ UNCHANGED <<users, treasury, treasuryAdjustments, auditLogs, faulty,
                 inflight>>

\* POST /api/payments/simulate
PostPaymentsSimulate(actor, contributionId, success, fail) ==
  /\ Serving
  /\ LET status == IF success THEN "confirmed" ELSE "failed"
         transactionId == IF success THEN now ELSE NoTxn
         w1 == fail # 1
     IN /\ contributions' =
             IF w1
             THEN updateContributionStatus(contributionId, status,
                                           transactionId)
             ELSE contributions
        /\ last' = [NoRequest EXCEPT !.op = "simulate", !.actor = actor,
                      !.code = IF w1 THEN 200 ELSE 500,
                      !.id = contributionId, !.status = status,
                      !.txn = IF w1 THEN transactionId ELSE NoTxn,
                      !.fail = fail]
  /\ now' = now + 1
  /\ UNCHANGED <<users, treasury, treasuryAdjustments, auditLogs, faulty,
                 inflight>>

\* GET /api/treasury: res.json(await storage.getTreasury()); `reads` counts
\* the reads served in a row
GetTreasury(fail) ==
  /\ Serving
  /\ last' = [NoRequest EXCEPT !.op = "snapshot",
                !.code = IF fail # 1 THEN 200 ELSE 500,
                !.result = IF fail # 1 THEN getTreasury ELSE <<>>,
                !.reads = IF fail # 1 /\ last.op = "snapshot"
                          THEN last.reads + 1 ELSE 1,
                !.fail = fail]
  /\ now' = now + 1
  /\ UNCHANGED <<users, contributions, treasury, treasuryAdjustments,
                 auditLogs, faulty, inflight>>

\* GET /api/stats: res.json(await storage.getContributionStats())
GetStats(fail) ==
  /\ Serving
  /\ last' = [NoRequest EXCEPT !.op = "stats",
                !.code = IF fail # 1 THEN 200 ELSE 500,
                !.result = IF fail # 1 THEN <<getContributionStats>>
                           ELSE <<>>,
                !.fail = fail]
  /\ now' = now + 1
  /\ UNCHANGED <<users, contributions, treasury, treasuryAdjustments,
                 auditLogs, faulty, inflight>>

\* the balance the adjust handler reads:
\* parseFloat(currentTreasury?.totalBalance || "0")
currentBalance ==
  IF Len(getTreasury) = 0 THEN 0 ELSE getTreasury[1].totalBalance

\* a handler that never lets the balance go below zero
newBalanceFloored(type, adjustmentAmount) ==
  IF type = "deposit" \/ type = "interest"
  THEN currentBalance + adjustmentAmount
  ELSE IF currentBalance - adjustmentAmount < 0 THEN 0
       ELSE currentBalance - adjustmentAmount

\* a handler that adds the amount whatever the type
newBalanceSignIgnored(type, adjustmentAmount) ==
  currentBalance + adjustmentAmount

\* the balance the adjust handler writes
newBalance(type, adjustmentAmount) ==
  IF type = "deposit" \/ type = "interest"
  THEN currentBalance + adjustmentAmount
  ELSE currentBalance - adjustmentAmount

\* a handler that inserts the record as received and validates afterwards
PostTreasuryAdjustInsertFirst(actor, type, amount, reason, fail) ==
  /\ Serving
  /\ LET admin == adminAccess(actor)
         body == [type |-> type, amount |-> amount, reason |-> reason]
         data == [type |-> type, amount |-> amount, reason |-> reason,
                  adminId |-> actor]
         w1 == admin /\ fail # 1
         w2 == w1 /\ insertTreasuryAdjustmentSchemaOk(body) /\ fail # 2
         w3 == w2 /\ fail # 3
     IN /\ treasuryAdjustments' =
             IF w1 THEN createTreasuryAdjustment(data)
             ELSE treasuryAdjustments
        /\ treasury' = IF w2 THEN updateTreasury(newBalance(type, amount))
                       ELSE treasury
        /\ auditLogs' =
             IF w3
             THEN createAuditLog([action |-> "Treasury Adjusted",
                                  details |-> [id |-> 0, amount |-> amount,
                                               what |-> type,
                                               reason |-> reason],
                                  adminId |-> actor])
             ELSE auditLogs
        /\ last' =
             IF ~admin
             THEN [NoRequest EXCEPT !.op = "adjust", !.actor = actor,
                                    !.code = 403]
             ELSE [NoRequest EXCEPT !.op = "adjust", !.actor = actor,
                     !.code = IF w3 THEN 200 ELSE 500,
                     !.id = IF w1 THEN Len(treasuryAdjustments) + 1 ELSE 0,
                     !.type = type, !.amount = amount, !.reason = reason,
                     !.fail = fail]
  /\ now' = now + 1
  /\ UNCHANGED <<users, contributions, faulty, inflight>>

\* POST /api/treasury/adjust
PostTreasuryAdjust(actor, type, amount, reason, fail) ==
  /\ Serving
  /\ LET admin == adminAccess(actor)
         body == [type |-> type, amount |-> amount, reason |-> reason]
         valid == admin /\ insertTreasuryAdjustmentSchemaOk(body)
         data == [type |-> type, amount |-> amount, reason |-> reason,
                  adminId |-> actor]
         w1 == valid /\ fail # 1
         w2 == w1 /\ fail # 2
         w3 == w2 /\ fail # 3
     IN /\ treasuryAdjustments' =
             IF w1 THEN createTreasuryAdjustment(data)
             ELSE treasuryAdjustments
        /\ treasury' = IF w2 THEN updateTreasury(newBalance(type, amount))
                       ELSE treasury
        /\ auditLogs' =
             IF w3
             THEN createAuditLog([action |-> "Treasury Adjusted",
                                  details |-> [id |-> 0, amount |-> amount,
                                               what |-> type,
                                               reason |-> reason],
                                  adminId |-> actor])
             ELSE auditLogs
        /\ last' =
             IF ~admin
             THEN [NoRequest EXCEPT !.op = "adjust", !.actor = actor,
                                    !.code = 403]
             ELSE [NoRequest EXCEPT !.op = "adjust", !.actor = actor,
                     !.code = IF w3 THEN 200 ELSE 500,
                     !.id = IF w1 THEN Len(treasuryAdjustments) + 1 ELSE 0,
                     !.type = type, !.amount = amount, !.reason = reason,
                     !.fail = fail]
  /\ now' = now + 1
  /\ UNCHANGED <<users, contributions, faulty, inflight>>

----------------------------------------------------------------------------
(* Specifications *)

InitStore ==
  /\ users = [u \in UserIds |->
                NewUser(u, IF u = Admin THEN "admin" ELSE "member")]
  /\ contributions = <<>>
  /\ treasury = <<>>
  /\ treasuryAdjustments = <<>>
  /\ auditLogs = <<>>
  /\ now = 1
  /\ last = NoRequest
  /\ inflight = [c \in Clients |-> Idle]

\* a store whose writes never fail
Init == InitStore /\ faulty = FALSE

\* a store whose writes may fail (StorageError, or a crash of the handler)
InitFaulty == InitStore /\ faulty = TRUE

Submit ==
  \E actor \in UserIds, body \in SubmitBodies, fail \in FailPoints(2) :
    PostContribution(actor, body.amount, body.paymentMethod, body.status,
                     fail)

Transition ==
  \E actor \in UserIds, id \in 1..(Len(contributions) + 1),
     body \in TransitionBodies, fail \in FailPoints(2) :
    PatchContributionStatus(actor, id, body.status, body.transactionId,
                            fail)

Simulate ==
  \E actor \in UserIds, id \in 1..(Len(contributions) + 1),
     success \in BOOLEAN, fail \in FailPoints(1) :
    PostPaymentsSimulate(actor, id, success, fail)

Adjust ==
  \E actor \in UserIds, body \in AdjustBodies, fail \in FailPoints(3) :
    PostTreasuryAdjust(actor, body.type, body.amount, body.reason, fail)

Snapshot == \E fail \in FailPoints(1) : GetTreasury(fail)

Next == Submit \/ Transition \/ Simulate \/ Adjust \/ Snapshot

Spec == Init /\ [][Next]_vars

SpecFaulty == InitFaulty /\ [][Next]_vars

\* a contributions table of n rows submitted by the member and then moved
\* by simulate to the statuses ss, all within the first instant
StatsTable(ss) ==
  [i \in 1..Len(ss) |->
     [id |-> i, userId |-> Member, amount |-> 1, paymentMethod |-> "mtn",
      status |-> ss[i],
      transactionId |-> IF ss[i] = "confirmed" THEN 1 ELSE NoTxn,
      createdAt |-> 1,
      confirmedAt |-> IF ss[i] = "confirmed" THEN 1 ELSE NoDate]]

\* the statistics are asked of a store that holds any table of up to
\* MaxRows contributions
InitStats ==
  /\ users = [u \in UserIds |->
                NewUser(u, IF u = Admin THEN "admin" ELSE "member")]
  /\ \E n \in 0..MaxRows : \E ss \in [1..n -> Statuses] :
       /\ contributions = StatsTable(ss)
       /\ auditLogs =
            [i \in 1..n |->
               [id |-> i, action |-> "Payment Initiated",
                details |-> [id |-> 0, amount |-> 1, what |-> "mtn",
                             reason |-> NULL],
                adminId |-> Member, createdAt |-> 1]]
  /\ treasury = <<>>
  /\ treasuryAdjustments = <<>>
  /\ now = 1
  /\ last = NoRequest
  /\ faulty = FALSE
  /\ inflight = [c \in Clients |-> Idle]

Stats == \E fail \in FailPoints(1) : GetStats(fail)

SpecStats == InitStats /\ [][Stats]_vars

----------------------------------------------------------------------------
(* Handlers in flight at the same time.  A handler is a chain of awaited  *)
(* store calls; between two awaits the server runs the other handler.     *)
(* Each step below is one store call (one SQL statement) of the handler   *)
(* of client c, with the synchronous code around it.                      *)

\* the second half of updateTreasury: with the row its own getTreasury
\* returned, update that row, or insert one when it returned none
updateTreasuryFound(existingTreasury, totalBalance) ==
  IF Len(existingTreasury) > 0
  THEN [i \in 1..Len(treasury) |->
          IF treasury[i].id = existingTreasury[1].id
          THEN [treasury[i] EXCEPT !.totalBalance = totalBalance,
                                   !.updatedAt = now]
          ELSE treasury[i]]
  ELSE Append(treasury,
              [id |-> Len(treasury) + 1, totalBalance |-> totalBalance,
               totalContributions |-> 0, totalWithdrawals |-> 0,
               interestEarned |-> 0, updatedAt |-> now])

\* POST /api/treasury/adjust, up to createTreasuryAdjustment
AdjustInsert(c, actor, type, amount, reason) ==
  /\ inflight[c].pc = "idle"
  /\ LET admin == adminAccess(actor)
         body == [type |-> type, amount |-> amount, reason |-> reason]
         valid == admin /\ insertTreasuryAdjustmentSchemaOk(body)
         data == [type |-> type, amount |-> amount, reason |-> reason,
                  adminId |-> actor]
     IN /\ treasuryAdjustments' =
             IF valid THEN createTreasuryAdjustment(data)
             ELSE treasuryAdjustments
        /\ inflight' =
             [inflight EXCEPT
                ![c] = [Idle EXCEPT
                          !.op = "adjust", !.actor = actor, !.type = type,
                          !.amount = amount, !.reason = reason,
                          !.id = IF valid THEN Len(treasuryAdjustments) + 1
                                 ELSE 0,
                          !.pc = IF valid THEN "read" ELSE "done",
                          !.code = IF ~admin THEN 403
                                   ELSE IF ~valid THEN 500 ELSE 0]]
  /\ now' = now + 1
  /\ UNCHANGED <<users, contributions, treasury, auditLogs, last, faulty>>

\* currentTreasury = await storage.getTreasury(), and the new balance
\* computed from it
AdjustRead(c) ==
  /\ inflight[c].pc = "read"
  /\ inflight' =
       [inflight EXCEPT
          ![c].newBalance = newBalance(inflight[c].type, inflight[c].amount),
          ![c].pc = "lookup"]
  /\ now' = now + 1
  /\ UNCHANGED <<users, contributions, treasury, treasuryAdjustments,
                 auditLogs, last, faulty>>

\* updateTreasury: existingTreasury = await this.getTreasury()
AdjustLookup(c) ==
  /\ inflight[c].pc = "lookup"
  /\ inflight' = [inflight EXCEPT ![c].existingTreasury = getTreasury,
                                  ![c].pc = "write"]
  /\ now' = now + 1
  /\ UNCHANGED <<users, contributions, treasury, treasuryAdjustments,
                 auditLogs, last, faulty>>

\* updateTreasury: the UPDATE or the INSERT
AdjustWrite(c) ==
  /\ inflight[c].pc = "write"
  /\ treasury' = updateTreasuryFound(inflight[c].existingTreasury,
                                     inflight[c].newBalance)
  /\ inflight' = [inflight EXCEPT ![c].pc = "audit"]
  /\ now' = now + 1
  /\ UNCHANGED <<users, contributions, treasuryAdjustments, auditLogs,
                 last, faulty>>

\* createAuditLog("Treasury Adjusted") and the response
AdjustAudit(c) ==
  /\ inflight[c].pc = "audit"
  /\ inflight[c].op = "adjust"
  /\ auditLogs' =
       createAuditLog([action |-> "Treasury Adjusted",
                       details |-> [id |-> 0, amount |-> inflight[c].amount,
                                    what |-> inflight[c].type,
                                    reason |-> inflight[c].reason],
                       adminId |-> inflight[c].actor])
  /\ inflight' = [inflight EXCEPT ![c].pc = "done", ![c].code = 200]
  /\ now' = now + 1
  /\ UNCHANGED <<users, contributions, treasury, treasuryAdjustments,
                 last, faulty>>

\* the admin dashboard's Confirm and Reject buttons, shown on a contribution
\* it lists as pending: the request leaves with a transactionId when it
\* confirms
ClickTransition(c, actor, id, status) ==
  /\ inflight[c].pc = "idle"
  /\ contributions[id].status = "pending"
  /\ inflight' =
       [inflight EXCEPT
          ![c] = [Idle EXCEPT
                    !.op = "transition", !.actor = actor, !.id = id,
                    !.status = status,
                    !.txn = IF status = "confirmed" THEN now ELSE NoTxn,
                    !.pc = "update"]]
  /\ now' = now + 1
  /\ UNCHANGED <<users, contributions, treasury, treasuryAdjustments,
                 auditLogs, last, faulty>>

\* PATCH /api/contributions/:id/status, up to updateContributionStatus
TransitionUpdate(c) ==
  /\ inflight[c].pc = "update"
  /\ inflight[c].op = "transition"
  /\ LET admin == adminAccess(inflight[c].actor)
     IN /\ contributions' =
             IF admin
             THEN updateContributionStatus(inflight[c].id, inflight[c].status,
                                           inflight[c].txn)
             ELSE contributions
        /\ inflight' =
             [inflight EXCEPT ![c].pc = IF admin THEN "audit" ELSE "done",
                              ![c].code = IF admin THEN 0 ELSE 403]
  /\ now' = now + 1
  /\ UNCHANGED <<users, treasury, treasuryAdjustments, auditLogs, last,
                 faulty>>

\* createAuditLog("Payment Status Updated") and the response
TransitionAudit(c) ==
  /\ inflight[c].pc = "audit"
  /\ inflight[c].op = "transition"
  /\ auditLogs' =
       createAuditLog([action |-> "Payment Status Updated",
                       details |-> [id |-> inflight[c].id, amount |-> 0,
                                    what |-> inflight[c].status,
                                    reason |-> NULL],
                       adminId |-> inflight[c].actor])
  /\ inflight' = [inflight EXCEPT ![c].pc = "done", ![c].code = 200]
  /\ now' = now + 1
  /\ UNCHANGED <<users, contributions, treasury, treasuryAdjustments,
                 last, faulty>>

\* a payment simulation sent for a contribution the client sees pending
SendSimulate(c, actor, contributionId, success) ==
  /\ inflight[c].pc = "idle"
  /\ contributions[contributionId].status = "pending"
  /\ inflight' =
       [inflight EXCEPT
          ![c] = [Idle EXCEPT
                    !.op = "simulate", !.actor = actor,
                    !.id = contributionId,
                    !.status = IF success THEN "confirmed" ELSE "failed",
                    !.pc = "update"]]
  /\ now' = now + 1
  /\ UNCHANGED <<users, contributions, treasury, treasuryAdjustments,
                 auditLogs, last, faulty>>

\* POST /api/payments/simulate: updateContributionStatus and the response
SimulateUpdate(c) ==
  /\ inflight[c].pc = "update"
  /\ inflight[c].op = "simulate"
  /\ LET transactionId ==
           IF inflight[c].status = "confirmed" THEN now ELSE NoTxn
     IN /\ contributions' =
             updateContributionStatus(inflight[c].id, inflight[c].status,
                                      transactionId)
        /\ inflight' = [inflight EXCEPT ![c].pc = "done", ![c].code = 200,
                                        ![c].txn = transactionId]
  /\ now' = now + 1
  /\ UNCHANGED <<users, treasury, treasuryAdjustments, auditLogs, last,
                 faulty>>

\* request bodies of the adjustments in flight
ConcurrentAdjustBodies ==
  { [type |-> "deposit", amount |-> 2, reason |-> "bank fee"],
    [type |-> "withdrawal", amount |-> 1, reason |-> "bank fee"] }

\* the store after the member submitted a contribution of 1 (instant 1)
\* and, when funded, after the admin deposited 2 (instant 2)
StoreAfterSubmit(funded) ==
  /\ users = [u \in UserIds |->
                NewUser(u, IF u = Admin THEN "admin" ELSE "member")]
  /\ contributions =
       <<[id |-> 1, userId |-> Member, amount |-> 1, paymentMethod |-> "mtn",
          status |-> "pending", transactionId |-> NoTxn, createdAt |-> 1,
          confirmedAt |-> NoDate]>>
  /\ treasuryAdjustments =
       IF funded
       THEN <<[id |-> 1, type |-> "deposit", amount |-> 2,
               reason |-> "bank fee", adminId |-> Admin, createdAt |-> 2]>>
       ELSE <<>>
  /\ treasury =
       IF funded
       THEN <<[id |-> 1, totalBalance |-> 2, totalContributions |-> 0,
               totalWithdrawals |-> 0, interestEarned |-> 0,
               updatedAt |-> 2]>>
       ELSE <<>>
  /\ auditLogs =
       <<[id |-> 1, action |-> "Payment Initiated",
          details |-> [id |-> 0, amount |-> 1, what |-> "mtn",
                       reason |-> NULL],
          adminId |-> Member, createdAt |-> 1]>>
       \o (IF funded
           THEN <<[id |-> 2, action |-> "Treasury Adjusted",
                   details |-> [id |-> 0, amount |-> 2, what |-> "deposit",
                                reason |-> "bank fee"],
                   adminId |-> Admin, createdAt |-> 2]>>
           ELSE <<>>)
  /\ now = IF funded THEN 3 ELSE 2

InitConcurrent ==
  /\ \E funded \in BOOLEAN : StoreAfterSubmit(funded)
  /\ last = NoRequest
  /\ faulty = FALSE
  /\ inflight = [c \in Clients |-> Idle]

AdjustStep ==
  \E c \in Clients :
    \/ \E actor \in UserIds, body \in ConcurrentAdjustBodies :
         AdjustInsert(c, actor, body.type, body.amount, body.reason)
    \/ AdjustRead(c)
    \/ AdjustLookup(c)
    \/ AdjustWrite(c)
    \/ AdjustAudit(c)

TransitionStep ==
  \E c \in Clients :
    \/ \E actor \in UserIds, id \in 1..Len(contributions),
          status \in {"confirmed", "failed"} :
         ClickTransition(c, actor, id, status)
    \/ TransitionUpdate(c)
    \/ TransitionAudit(c)

SimulateStep ==
  \E c \in Clients :
    \/ \E actor \in UserIds, id \in 1..Len(contributions),
          success \in BOOLEAN :
         SendSimulate(c, actor, id, success)
    \/ SimulateUpdate(c)

NextConcurrent == AdjustStep \/ TransitionStep \/ SimulateStep

SpecConcurrent == InitConcurrent /\ [][NextConcurrent]_vars

----------------------------------------------------------------------------
(* Derived values the properties speak of *)

RECURSIVE SumConfirmed(_, _)
\* sum of the amounts of the confirmed contributions among the first n rows
SumConfirmed(cs, n) ==
  IF n = 0 THEN 0
  ELSE SumConfirmed(cs, n - 1)
       + (IF cs[n].status = "confirmed" THEN cs[n].amount ELSE 0)

RECURSIVE SumAdjustments(_, _)
\* deposits and interest minus withdrawals and fees, over the first n rows
SumAdjustments(as, n) ==
  IF n = 0 THEN 0
  ELSE SumAdjustments(as, n - 1)
       + (IF as[n].type \in {"deposit", "interest"} THEN as[n].amount
          ELSE IF as[n].type \in {"withdrawal", "fee"} THEN -as[n].amount
          ELSE 0)

\* the treasury snapshot's fields; zero while no treasury row exists
TotalBalance(t) == IF Len(t) = 0 THEN 0 ELSE t[1].totalBalance
TotalContributions(t) == IF Len(t) = 0 THEN 0 ELSE t[1].totalContributions
TotalWithdrawals(t) == IF Len(t) = 0 THEN 0 ELSE t[1].totalWithdrawals
InterestEarned(t) == IF Len(t) = 0 THEN 0 ELSE t[1].interestEarned

\* the step serves a status change (admin transition past its role check,
\* or simulate) aimed at the existing contribution last'.id
StatusRequest ==
  /\ last'.op \in {"transition", "simulate"}
  /\ last'.id \in 1..Len(contributions)

\* the step serves an admin transition to confirmed of a pending contribution
ConfirmRequest ==
  /\ last'.op = "transition"
  /\ last'.status = "confirmed"
  /\ last'.id \in 1..Len(contributions)
  /\ contributions[last'.id].status = "pending"

\* the step serves an adjustment past its role check
AdjustRequest == last'.op = "adjust" /\ last'.code # 403

\* the same, for a request the ledger's rules admit: a known type, a
\* positive amount and a reason
WellFormedAdjustRequest ==
  /\ AdjustRequest
  /\ last'.type \in AdjustmentTypes
  /\ last'.amount > 0
  /\ last'.reason \notin {NULL, ""}

\* the contribution was made terminal by a status change
TransitionedTerminal(c) ==
  c.status = "failed" \/ (c.status = "confirmed" /\ c.confirmedAt # NoDate)

----------------------------------------------------------------------------
(* Properties *)

\* C1: once a contribution is confirmed or failed, a further transition or
\* simulate call on it fails and changes nothing: contributions, member
\* balances, treasury and audit log stay as they were.  Stated for the
\* contributions a status change made terminal.
C1_TerminalTransitionRejected ==
  [][ (StatusRequest /\ TransitionedTerminal(contributions[last'.id]))
      => /\ last'.code # 200
         /\ UNCHANGED <<contributions, users, treasury, auditLogs>> ]_vars

\* C2: treasury totalBalance equals deposits and interest, minus withdrawals
\* and fees, plus the amounts of the confirmed contributions.  Stated for
\* the states whose confirmed contributions were all confirmed by a status
\* change.
C2_BalanceEqualsLedger ==
  (\A i \in 1..Len(contributions) :
     contributions[i].status = "confirmed"
       => contributions[i].confirmedAt # NoDate)
  =>
  TotalBalance(treasury)
    = SumAdjustments(treasuryAdjustments, Len(treasuryAdjustments))
      + SumConfirmed(contributions, Len(contributions))

\* C3: a successful submit creates a contribution with status pending and a
\* null confirmedAt, and records exactly one "Payment Initiated" audit entry.
C3_SubmitCreatesPending ==
  [][ (last'.op = "submit" /\ last'.code = 200)
      => /\ Len(contributions') = Len(contributions) + 1
         /\ contributions'[Len(contributions')].status = "pending"
         /\ contributions'[Len(contributions')].confirmedAt = NoDate
         /\ Len(auditLogs') = Len(auditLogs) + 1
         /\ auditLogs'[Len(auditLogs')].action = "Payment Initiated" ]_vars

\* C4: for every contribution, confirmedAt is set if and only if its status
\* is confirmed.
C4_ConfirmedAtIffConfirmed ==
  \A i \in 1..Len(contributions) :
    (contributions[i].confirmedAt # NoDate)
      <=> (contributions[i].status = "confirmed")

\* C5: a successful transition of a pending contribution of amount a owned
\* by m to confirmed adds a to m's totalContributed and currentBalance, sets
\* m's lastPaymentDate, and adds a to treasury totalBalance and
\* totalContributions.
C5_ConfirmationUpdatesBalances ==
  [][ (ConfirmRequest /\ last'.code = 200)
      => LET c == contributions[last'.id]
             m == c.userId
         IN /\ users'[m].totalContributed
                 = users[m].totalContributed + c.amount
            /\ users'[m].currentBalance = users[m].currentBalance + c.amount
            /\ users'[m].lastPaymentDate = now
            /\ TotalBalance(treasury') = TotalBalance(treasury) + c.amount
            /\ TotalContributions(treasury')
                 = TotalContributions(treasury) + c.amount ]_vars

\* C6: the writes of a confirmation are one atomic unit: a confirmation
\* whose write fails leaves nothing behind, and the contribution is left
\* confirmed exactly when the audit entry of the confirmation is appended.
C6_ConfirmationAtomic ==
  [][ ConfirmRequest
      => /\ (last'.code # 200)
              => UNCHANGED <<contributions, users, treasury, auditLogs>>
         /\ (contributions'[last'.id].status = "confirmed")
              <=> (Len(auditLogs') = Len(auditLogs) + 1) ]_vars

\* C7: an adjustment fully applies or fully rolls back: the adjustment
\* record, the treasury write and the "Treasury Adjusted" audit entry
\* appear together or not at all.
C7_AdjustmentAtomic ==
  [][ WellFormedAdjustRequest
      => /\ (Len(treasuryAdjustments') = Len(treasuryAdjustments) + 1)
              <=> (treasury' # treasury)
         /\ (treasury' # treasury)
              <=> (Len(auditLogs') = Len(auditLogs) + 1) ]_vars

\* C8: a successful adjustment of a type among deposit, withdrawal,
\* interest, fee changes totalBalance by +amount (deposit, interest) or
\* -amount (withdrawal, fee), creates one adjustment record and appends one
\* "Treasury Adjusted" audit entry.
C8_AdjustmentChangesBalance ==
  [][ (AdjustRequest /\ last'.code = 200 /\ last'.type \in AdjustmentTypes)
      => /\ TotalBalance(treasury')
              = TotalBalance(treasury)
                + (IF last'.type \in {"deposit", "interest"}
                   THEN last'.amount ELSE -last'.amount)
         /\ Len(treasuryAdjustments') = Len(treasuryAdjustments) + 1
         /\ treasuryAdjustments'[Len(treasuryAdjustments')].type = last'.type
         /\ treasuryAdjustments'[Len(treasuryAdjustments')].amount
              = last'.amount
         /\ Len(auditLogs') = Len(auditLogs) + 1
         /\ auditLogs'[Len(auditLogs')].action = "Treasury Adjusted" ]_vars

\* C8 witness: a withdrawal was applied to a treasury that already held the
\* balance of an earlier deposit.
C8_Witness ==
  /\ last.op = "adjust" /\ last.code = 200 /\ last.type = "withdrawal"
  /\ last.amount > 0
  /\ Len(treasuryAdjustments) = 2
  /\ treasuryAdjustments[1].type = "deposit"
  /\ TotalBalance(treasury) = treasuryAdjustments[1].amount - last.amount

\* C9: a successful interest adjustment adds its amount to interestEarned,
\* and a successful withdrawal or fee adds its amount to totalWithdrawals.
C9_AdjustmentUpdatesCounters ==
  [][ (WellFormedAdjustRequest /\ last'.code = 200)
      => /\ (last'.type = "interest")
              => InterestEarned(treasury')
                   = InterestEarned(treasury) + last'.amount
         /\ (last'.type \in {"withdrawal", "fee"})
              => TotalWithdrawals(treasury')
                   = TotalWithdrawals(treasury) + last'.amount ]_vars

\* C10: an adjustment with a zero or negative amount, or an empty reason,
\* fails, creates no adjustment record, leaves the treasury unchanged and
\* writes no audit entry.
C10_AdjustmentValidated ==
  [][ (AdjustRequest /\ (last'.amount <= 0 \/ last'.reason = ""))
      => /\ last'.code # 200
         /\ UNCHANGED <<treasuryAdjustments, treasury, auditLogs>> ]_vars

----------------------------------------------------------------------------
(* Properties of the second group *)

RECURSIVE SumConfirmedOf(_, _, _)
\* sum of the amounts of member m's confirmed contributions among the first
\* n rows
SumConfirmedOf(cs, m, n) ==
  IF n = 0 THEN 0
  ELSE SumConfirmedOf(cs, m, n - 1)
       + (IF cs[n].userId = m /\ cs[n].status = "confirmed"
          THEN cs[n].amount ELSE 0)

\* every confirmed contribution was confirmed by a status change
ConfirmedByStatusChange ==
  \A i \in 1..Len(contributions) :
    contributions[i].status = "confirmed"
      => contributions[i].confirmedAt # NoDate

\* the step serves an admin transition to failed of a pending contribution
FailRequest ==
  /\ last'.op = "transition"
  /\ last'.status = "failed"
  /\ last'.code = 200
  /\ last'.id \in 1..Len(contributions)
  /\ contributions[last'.id].status = "pending"

\* the rows other than row id are the same before and after the step
OtherContributionsKept(id) ==
  /\ Len(contributions') = Len(contributions)
  /\ \A j \in 1..Len(contributions) :
       j # id => contributions'[j] = contributions[j]

\* the step appends one audit entry with the given action
AuditAppended(action) ==
  /\ Len(auditLogs') = Len(auditLogs) + 1
  /\ auditLogs'[Len(auditLogs')].action = action

\* C11: a submit with an amount <= 0 or a payment method outside visa,
\* mastercard, mtn, airtel fails, creates no contribution and writes no
\* audit entry.
C11_SubmitValidated ==
  [][ (last'.op = "submit"
       /\ (last'.amount <= 0 \/ last'.method \notin PaymentMethods))
      => /\ last'.code # 200
         /\ UNCHANGED <<contributions, auditLogs>> ]_vars

\* C12: an admin transition or an adjustment invoked by an actor whose role
\* is not admin is rejected and writes nothing: contributions, treasury,
\* adjustment records, audit log and members stay as they were.
C12_NonAdminRejected ==
  [][ (last'.op \in {"transition", "adjust"}
       /\ users[last'.actor].role # "admin")
      => /\ last'.code = 403
         /\ UNCHANGED <<contributions, treasury, treasuryAdjustments,
                        auditLogs, users>> ]_vars

\* C12 witness: a member's transition request was rejected while a pending
\* contribution existed for it to change.
C12_Witness ==
  /\ last.op = "transition" /\ last.code = 403
  /\ users[last.actor].role = "member"
  /\ Len(contributions) > 0
  /\ contributions[1].status = "pending"
  /\ Len(auditLogs) = 1

\* C13: every step that changes the status of a contribution appends
\* exactly one audit entry, of action "Payment Status Updated".
C13_StatusChangeAudited ==
  [][ (\E i \in 1..Len(contributions) :
         i <= Len(contributions')
         /\ contributions'[i].status # contributions[i].status)
      => AuditAppended("Payment Status Updated") ]_vars

\* C14: a transition or simulate call naming a contribution id that does
\* not exist does not answer with a success.
C14_UnknownIdNotFound ==
  [][ (last'.op \in {"transition", "simulate"}
       /\ last'.code # 403
       /\ last'.id \notin 1..Len(contributions))
      => last'.code # 200 ]_vars

\* C15 as first stated: a transition of a pending contribution to failed
\* changes that contribution's status and nothing else of it, appends the
\* audit entry, and changes no member and no treasury field.
C15_FailChangesOnlyStatus ==
  [][ FailRequest
      => /\ contributions'[last'.id]
              = [contributions[last'.id] EXCEPT !.status = "failed"]
         /\ OtherContributionsKept(last'.id)
         /\ AuditAppended("Payment Status Updated")
         /\ UNCHANGED <<users, treasury, treasuryAdjustments>> ]_vars

\* C15: a transition of a pending contribution to failed changes that
\* contribution's status, and its transactionId when the request carries
\* one, and nothing else of it; it appends the audit entry and changes no
\* member and no treasury field.
C15_FailFrame ==
  [][ FailRequest
      => /\ contributions'[last'.id]
              = [contributions[last'.id] EXCEPT
                   !.status = "failed",
                   !.transactionId = IF last'.txn # NoTxn THEN last'.txn
                                     ELSE @]
         /\ OtherContributionsKept(last'.id)
         /\ AuditAppended("Payment Status Updated")
         /\ UNCHANGED <<users, treasury, treasuryAdjustments>> ]_vars

\* C15 witness: a pending contribution was moved to failed while a treasury
\* row existed.
C15_Witness ==
  /\ last.op = "transition" /\ last.status = "failed" /\ last.code = 200
  /\ last.id \in 1..Len(contributions)
  /\ contributions[last.id].status = "failed"
  /\ auditLogs[Len(auditLogs)].action = "Payment Status Updated"
  /\ Len(treasury) = 1

\* C16: every member's totalContributed equals the sum of the amounts of
\* that member's confirmed contributions.  Stated for the states whose
\* confirmed contributions were all confirmed by a status change.
C16_TotalContributedIsSum ==
  ConfirmedByStatusChange
  => \A m \in UserIds :
       users[m].totalContributed
         = SumConfirmedOf(contributions, m, Len(contributions))

\* C17 as first stated: a snapshot read never returns an absent treasury;
\* on a store with no treasury row it creates the zeroed singleton and
\* returns it.
C17_SnapshotCreates ==
  [][ (last'.op = "snapshot")
      => /\ last'.code = 200
         /\ Len(last'.result) = 1
         /\ Len(treasury') = 1
         /\ last'.result[1] = treasury'[1]
         /\ (Len(treasury) = 0
               => /\ treasury'[1].totalBalance = 0
                  /\ treasury'[1].totalContributions = 0
                  /\ treasury'[1].totalWithdrawals = 0
                  /\ treasury'[1].interestEarned = 0) ]_vars

\* C17: a snapshot read on a store with no treasury row answers without
\* error, returns an absent treasury and creates nothing; the singleton is
\* created by an adjustment, with totalContributions, totalWithdrawals and
\* interestEarned zero.
C17_SnapshotAbsent ==
  [][ /\ (last'.op = "snapshot" /\ Len(treasury) = 0)
         => /\ last'.code = 200
            /\ last'.result = <<>>
            /\ UNCHANGED <<treasury, contributions, treasuryAdjustments,
                           auditLogs, users>>
      /\ (Len(treasury) = 0 /\ Len(treasury') > 0)
         => /\ last'.op = "adjust"
            /\ Len(treasury') = 1
            /\ treasury'[1].totalContributions = 0
            /\ treasury'[1].totalWithdrawals = 0
            /\ treasury'[1].interestEarned = 0 ]_vars

\* C17 witness: a snapshot was read from a store with no treasury row,
\* after other requests were served.
C17_Witness ==
  /\ last.op = "snapshot" /\ last.code = 200 /\ last.result = <<>>
  /\ Len(treasury) = 0
  /\ Len(contributions) > 0

\* C18: two snapshot reads served in a row return identical values,
\* whether or not a treasury row exists.
C18_SnapshotIdempotent ==
  [][ (last.op = "snapshot" /\ last.code = 200
       /\ last'.op = "snapshot" /\ last'.code = 200)
      => last'.result = last.result ]_vars

\* C18 witness: a second read in a row returned the existing treasury row.
C18_Witness ==
  /\ last.op = "snapshot" /\ last.code = 200 /\ last.reads >= 2
  /\ Len(last.result) = 1
  /\ last.result[1].totalBalance # 0

\* C18 witness on the empty store: a second read in a row returned an
\* absent treasury.
C18_WitnessAbsent ==
  /\ last.op = "snapshot" /\ last.code = 200 /\ last.reads >= 2
  /\ last.result = <<>>

\* C19: the audit log is append-only: every step keeps the entries it
\* found, unchanged and in place.
C19_AuditAppendOnly ==
  [][ /\ Len(auditLogs') >= Len(auditLogs)
      /\ SubSeq(auditLogs', 1, Len(auditLogs)) = auditLogs ]_vars

\* C19 witness: the log holds entries of two different operations.
C19_Witness ==
  /\ Len(auditLogs) >= 2
  /\ auditLogs[1].action = "Payment Initiated"
  /\ auditLogs[Len(auditLogs)].action = "Treasury Adjusted"

\* C20: a successful simulate of an existing contribution leaves it
\* confirmed with the generated, non-null transactionId it returns (on
\* success) or failed with no transactionId returned (on failure), and has
\* the effects of a transition to the same status: the row update and the
\* "Payment Status Updated" audit entry.
C20_SimulateIsTransition ==
  [][ (last'.op = "simulate" /\ last'.code = 200
       /\ last'.id \in 1..Len(contributions))
      => /\ contributions'[last'.id].status = last'.status
         /\ (last'.status = "confirmed")
              => /\ last'.txn # NoTxn
                 /\ contributions'[last'.id].transactionId = last'.txn
         /\ (last'.status = "failed") => last'.txn = NoTxn
         /\ contributions'
              = updateContributionStatus(last'.id, last'.status, last'.txn)
         /\ AuditAppended("Payment Status Updated") ]_vars

----------------------------------------------------------------------------
(* Properties of the third group: statistics, handlers in flight at the   *)
(* same time, enumerations, and what the handlers leave unchecked         *)

\* C21: the statistics answer with paymentRate = totalConfirmed /
\* totalContributionsEver * 100 rounded to one decimal (the rate, in tenths
\* of a percent, is within half a tenth of the exact quotient), with 0 and
\* no error when there is no contribution, and always within 0..100.
C21_PaymentRate ==
  last.op = "stats" =>
    LET t == Len(contributions)
        c == Cardinality({i \in 1..t : contributions[i].status = "confirmed"})
        r == last.result[1].paymentRate
        d == r * t - 1000 * c
    IN /\ last.code = 200
       /\ last.result[1].totalConfirmed = c
       /\ t = 0 => r = 0
       /\ t > 0 => (2 * d <= t /\ -2 * d <= t)
       /\ r >= 0 /\ r <= 1000

\* two of three contributions are confirmed and the rate reads 66.7
C21_Witness ==
  /\ last.op = "stats"
  /\ Len(contributions) = 3
  /\ last.result[1].totalConfirmed = 2
  /\ last.result[1].paymentRate = 667

\* the adjustments of both clients were answered 200
BothAdjusted ==
  \A c \in Clients :
    inflight[c].op = "adjust" /\ inflight[c].pc = "done"
    /\ inflight[c].code = 200

\* C22: when two adjustments of the treasury interleave no update is lost:
\* once both are answered the balance is the initial balance plus the signed
\* amounts of both, that is the signed sum of all adjustment records.
\* Stated for the runs that end with a single treasury row.
C22_NoLostUpdate ==
  (BothAdjusted /\ Len(treasury) = 1)
  => TotalBalance(treasury)
       = SumAdjustments(treasuryAdjustments, Len(treasuryAdjustments))

\* C23: the treasury is a singleton: there is never more than one treasury
\* row, also when two first adjustments run at the same time; once an
\* adjustment was answered 200 there is exactly one, and no row is deleted.
C23_TreasurySingleton ==
  [][ /\ Len(treasury') <= 1
      /\ Len(treasury') >= Len(treasury)
      /\ (\E c \in Clients : inflight'[c].op = "adjust"
                              /\ inflight'[c].code = 200)
         => Len(treasury') = 1 ]_vars

\* both clients sent a status change of the same contribution while it was
\* pending, both passed the role check and both were answered
BothTransitioned ==
  /\ \A c \in Clients :
       /\ inflight[c].op \in {"transition", "simulate"}
       /\ inflight[c].pc = "done"
       /\ inflight[c].code # 403
  /\ \A c, d \in Clients : inflight[c].id = inflight[d].id

\* C24: of two status changes sent at the same time for the same pending
\* contribution exactly one takes effect (is answered 200).
C24_OneTransitionTakesEffect ==
  BothTransitioned
  => Cardinality({c \in Clients : inflight[c].code = 200}) = 1

\* C25: every contribution's status is pending, confirmed or failed,
\* whatever status value a submit, transition or simulate call supplies.
C25_StatusInEnumeration ==
  \A i \in 1..Len(contributions) : contributions[i].status \in Statuses

\* C26: an adjustment whose type is none of deposit, withdrawal, interest,
\* fee is rejected and leaves the treasury, the adjustment records and the
\* audit log unchanged.
C26_UnknownTypeRejected ==
  [][ (AdjustRequest /\ last'.type \notin AdjustmentTypes)
      => /\ last'.code # 200
         /\ UNCHANGED <<treasury, treasuryAdjustments, auditLogs>> ]_vars

\* C27: simulate has no role check and no ownership check: whoever sends
\* it, it is never answered 403, and unless the store fails it is answered
\* 200 and the contribution it names takes the simulated status, with no
\* audit entry.
C27_SimulateUnguarded ==
  [][ last'.op = "simulate"
      => /\ last'.code # 403
         /\ (last'.fail = 0 /\ last'.id \in 1..Len(contributions))
            => /\ last'.code = 200
               /\ contributions'[last'.id].status = last'.status
               /\ auditLogs' = auditLogs ]_vars

\* the member moved a contribution of the admin by simulate, and no status
\* change was ever logged
C27_Witness ==
  /\ last.op = "simulate"
  /\ last.actor = Member
  /\ last.code = 200
  /\ last.id \in 1..Len(contributions)
  /\ contributions[last.id].userId = Admin
  /\ contributions[last.id].status = last.status
  /\ \A i \in 1..Len(auditLogs) :
       auditLogs[i].action # "Payment Status Updated"

\* C28: the adjust handler makes no sufficiency check: a withdrawal or fee
\* larger than the current balance is answered 200 unless the store fails,
\* and the negative balance is stored.
C28_NoSufficiencyCheck ==
  [][ ( /\ AdjustRequest
        /\ last'.fail = 0
        /\ last'.type \in {"withdrawal", "fee"}
        /\ last'.reason # NULL
        /\ last'.amount > TotalBalance(treasury) )
      => /\ last'.code = 200
         /\ TotalBalance(treasury') = TotalBalance(treasury) - last'.amount
         /\ TotalBalance(treasury') < 0 ]_vars

\* a withdrawal was served and the stored balance is negative
C28_Witness ==
  /\ last.op = "adjust"
  /\ last.type = "withdrawal"
  /\ last.code = 200
  /\ Len(treasury) = 1
  /\ treasury[1].totalBalance < 0

\* the step wrote the status of contribution i
StatusWritten(i) ==
  /\ last'.op \in {"transition", "simulate"}
  /\ last'.code = 200
  /\ last'.id = i

\* C29: no operation changes the id, amount, owner, paymentMethod or
\* createdAt of an existing contribution, and a stored transactionId is
\* never cleared: a status update without a transactionId keeps the stored
\* one, a status update with one overwrites it, and nothing else writes it.
C29_ContributionFrame ==
  [][ \A i \in 1..Len(contributions) :
        /\ i <= Len(contributions')
        /\ contributions'[i].id = contributions[i].id
        /\ contributions'[i].amount = contributions[i].amount
        /\ contributions'[i].userId = contributions[i].userId
        /\ contributions'[i].paymentMethod = contributions[i].paymentMethod
        /\ contributions'[i].createdAt = contributions[i].createdAt
        /\ contributions'[i].transactionId =
             IF StatusWritten(i) /\ last'.txn # NoTxn
             THEN last'.txn
             ELSE contributions[i].transactionId ]_vars

\* a contribution that carries a transactionId was moved to failed by a
\* request without one, and still carries it
C29_Witness ==
  /\ last.op = "transition"
  /\ last.code = 200
  /\ last.status = "failed"
  /\ last.txn = NoTxn
  /\ last.id \in 1..Len(contributions)
  /\ contributions[last.id].status = "failed"
  /\ contributions[last.id].transactionId # NoTxn

\* C30: submit and adjust validate before their first write and adjust
\* checks the role before it validates, so a call rejected for validation
\* or authorisation writes nothing; adjust inserts the adjustment record
\* first, then updates the treasury, then appends the audit entry.  The
\* order of the writes shows in what a failing store leaves behind.
C30_ValidateThenWriteInOrder ==
  [][ /\ (last'.op \in {"submit", "adjust"} /\ last'.fail = 0
          /\ last'.code # 200)
         => UNCHANGED <<users, contributions, treasury, treasuryAdjustments,
                        auditLogs>>
      /\ (last'.op = "adjust" /\ ~adminAccess(last'.actor))
         => last'.code = 403
      /\ last'.op = "adjust"
         => /\ auditLogs' # auditLogs => treasury' # treasury
            /\ treasury' # treasury
               => treasuryAdjustments' # treasuryAdjustments
            /\ last'.code = 200 => auditLogs' # auditLogs ]_vars

\* the treasury write of the first adjustment failed: the record is there,
\* the treasury row and the audit entry are not
C30_Witness ==
  /\ last.op = "adjust"
  /\ last.fail = 2
  /\ Len(treasuryAdjustments) = 1
  /\ Len(treasury) = 0
  /\ Len(auditLogs) = 0

====
